---- MODULE Spec2Model ----
(***************************************************************************)
(* A model of property_with_ui_flask.py: the global scraping_status, the   *)
(* Flask request handlers, the scrape_thread worker with the three site    *)
(* adapters of PropertyFinder, and the field extractors and the validation *)
(* policy as operators.                                                    *)
(*                                                                         *)
(* A text is a sequence of one-character strings and NoText is None where  *)
(* a text is expected; None is None where a string is expected; a float is *)
(* an exact fraction and NoFloat is None where a float is expected.        *)
(***************************************************************************)
EXTENDS Integers, Sequences, FiniteSets, TLC

\* ------------------------------------------------------------------ bounds

\* Number of requests one behaviour handles.
MaxRequests == 3

\* Number of runs (worker threads) one behaviour starts.
MaxRuns == 2

\* Largest "pages" value of a start request.
MaxPages == 2

\* Largest number of listing fragments on one fetched page.
MaxBoxes == 1

\* Total number of listing fragments the sites serve in one behaviour.
MaxFragments == 1

\* Largest "budget" value (in lakhs) of a start request.
MaxBudget == 2

\* Largest number of rows of all_data handed to get_results_df on its own.
MaxRows == 3

\* ------------------------------------------------------------- text helpers

None == "None"

NoText == <<None>>

UpperChars ==
    <<"A","B","C","D","E","F","G","H","I","J","K","L","M",
      "N","O","P","Q","R","S","T","U","V","W","X","Y","Z">>

LowerChars ==
    <<"a","b","c","d","e","f","g","h","i","j","k","l","m",
      "n","o","p","q","r","s","t","u","v","w","x","y","z">>

Digits == {"0","1","2","3","4","5","6","7","8","9"}

Spaces == {" "}

\* str.lower() on one character
LowerChar(c) ==
    IF \E i \in 1..26 : UpperChars[i] = c
    THEN LowerChars[CHOOSE i \in 1..26 : UpperChars[i] = c]
    ELSE c

\* str.lower()
Lower(t) == [i \in 1..Len(t) |-> LowerChar(t[i])]

\* t[i:].startswith(p), i counted from 1
StartsAt(t, i, p) ==
    /\ i + Len(p) - 1 <= Len(t)
    /\ \A j \in 1..Len(p) : t[i + j - 1] = p[j]

\* p in t
Contains(t, p) == \E i \in 1..(Len(t) + 1) : StartsAt(t, i, p)

\* first index >= i of t that holds no character of set cs (Len(t)+1 if none)
RECURSIVE SkipWhile(_, _, _)
SkipWhile(t, i, cs) ==
    IF i <= Len(t) /\ t[i] \in cs THEN SkipWhile(t, i + 1, cs) ELSE i

\* "".join(t): a text as one string
RECURSIVE Join(_)
Join(t) == IF t = <<>> THEN "" ELSE Head(t) \o Join(Tail(t))

\* str.replace(p, ""), leftmost occurrences first, not overlapping
RECURSIVE Remove(_, _)
Remove(t, p) ==
    IF t = <<>> THEN <<>>
    ELSE IF StartsAt(t, 1, p) THEN Remove(SubSeq(t, Len(p) + 1, Len(t)), p)
    ELSE <<Head(t)>> \o Remove(Tail(t), p)

\* str.strip()
Strip(t) ==
    LET a == SkipWhile(t, 1, Spaces)
        b == CHOOSE k \in 0..Len(t) :
                 /\ \A j \in (k + 1)..Len(t) : t[j] \in Spaces
                 /\ (k > 0 => t[k] \notin Spaces)
    IN  IF a > b THEN <<>> ELSE SubSeq(t, a, b)

\* Python truthiness of an optional text
Truthy(t) == t # NoText /\ t # <<>>

\* ---------------------------------------------------------- field extractors

DigitChars == <<"0","1","2","3","4","5","6","7","8","9">>

\* int(c) for one digit character
DigitVal(c) == (CHOOSE i \in 1..10 : DigitChars[i] = c) - 1

\* int(t) for a text of digits ("" counts 0)
RECURSIVE NumVal(_)
NumVal(t) ==
    IF t = <<>> THEN 0
    ELSE NumVal(SubSeq(t, 1, Len(t) - 1)) * 10 + DigitVal(t[Len(t)])

RECURSIVE Pow10(_)
Pow10(k) == IF k = 0 THEN 1 ELSE 10 * Pow10(k - 1)

RECURSIVE GCD(_, _)
GCD(a, b) == IF b = 0 THEN a ELSE GCD(b, a % b)

\* A float value is the exact fraction n/d in lowest terms, d > 0.
Rat(n, d) == LET g == GCD(n, d) IN IF n = 0 THEN [n |-> 0, d |-> 1] ELSE [n |-> n \div g, d |-> d \div g]

NoFloat == [n |-> 0, d |-> 0]

\* value * k for a float value and an int k
RatTimes(r, k) == LET g == GCD(k, r.d) IN Rat(r.n * (k \div g), r.d \div g)

\* value > k for a float value and an int k
RatGT(r, k) == r.n > k * r.d

\* Python truthiness of an optional float
FloatTruthy(r) == r # NoFloat /\ r.n # 0

\* the rupee sign, one character
RupeeSign == "INR"

\* extract_price_numeric without lower()
extract_price_numeric_as_written(price_text) ==
    IF ~Truthy(price_text) THEN NoFloat
    ELSE
    LET t == Strip(Remove(Remove(Remove(price_text, <<",">>), <<RupeeSign>>), <<"r","s">>))
        i == SkipWhile(t, 1, {c \in {t[k] : k \in 1..Len(t)} : c \notin Digits})
    IN  IF i > Len(t) THEN NoFloat
        ELSE
        LET j == SkipWhile(t, i, Digits)
            dot == j <= Len(t) /\ t[j] = "."
            k == IF dot THEN SkipWhile(t, j + 1, Digits) ELSE j
            whole == SubSeq(t, i, j - 1)
            frac == IF dot THEN SubSeq(t, j + 1, k - 1) ELSE <<>>
            value == Rat(NumVal(whole) * Pow10(Len(frac)) + NumVal(frac), Pow10(Len(frac)))
        IN  IF Contains(t, <<"c","r","o","r","e">>) \/ Contains(t, <<"c","r">>)
              THEN RatTimes(value, 10000000)
            ELSE IF Contains(t, <<"l","a","k","h">>) \/ Contains(t, <<"l","a","c">>)
              THEN RatTimes(value, 100000)
            ELSE IF Contains(t, <<"k">>)
              THEN RatTimes(value, 1000)
            ELSE value

\* PropertyFinder.extract_price_numeric
extract_price_numeric(price_text) ==
    IF ~Truthy(price_text) THEN NoFloat
    ELSE
    LET t == Strip(Remove(Remove(Remove(Lower(price_text), <<",">>), <<RupeeSign>>), <<"r","s">>))
        i == SkipWhile(t, 1, {c \in {t[k] : k \in 1..Len(t)} : c \notin Digits})
    IN  IF i > Len(t) THEN NoFloat
        ELSE
        LET j == SkipWhile(t, i, Digits)
            dot == j <= Len(t) /\ t[j] = "."
            k == IF dot THEN SkipWhile(t, j + 1, Digits) ELSE j
            whole == SubSeq(t, i, j - 1)
            frac == IF dot THEN SubSeq(t, j + 1, k - 1) ELSE <<>>
            value == Rat(NumVal(whole) * Pow10(Len(frac)) + NumVal(frac), Pow10(Len(frac)))
        IN  IF Contains(t, <<"c","r","o","r","e">>) \/ Contains(t, <<"c","r">>)
              THEN RatTimes(value, 10000000)
            ELSE IF Contains(t, <<"l","a","k","h">>) \/ Contains(t, <<"l","a","c">>)
              THEN RatTimes(value, 100000)
            ELSE IF Contains(t, <<"k">>)
              THEN RatTimes(value, 1000)
            ELSE value

\* the leftmost match of (\d+)\s*(?:bhk|bedroom|bh) in t at or after i: its
\* group 1 as <<first, last>>, or <<>> when nothing matches
RECURSIVE BhkSearch(_, _)
BhkSearch(t, i) ==
    IF i > Len(t) THEN <<>>
    ELSE IF t[i] \notin Digits THEN BhkSearch(t, i + 1)
    ELSE
    LET j == SkipWhile(t, i, Digits)
        k == SkipWhile(t, j, Spaces)
    IN  IF \/ StartsAt(t, k, <<"b","h","k">>)
           \/ StartsAt(t, k, <<"b","e","d","r","o","o","m">>)
           \/ StartsAt(t, k, <<"b","h">>)
        THEN <<i, j - 1>>
        ELSE BhkSearch(t, j)

\* PropertyFinder.extract_bhk: the digits as a string, or None
extract_bhk(text) ==
    IF ~Truthy(text) THEN None
    ELSE
    LET t == Lower(text)
        m == BhkSearch(t, 1)
    IN  IF m = <<>> THEN None ELSE Join(SubSeq(t, m[1], m[2]))

\* PropertyFinder.preferred_builders
preferred_builders ==
    << <<"p","r","e","s","t","i","g","e">>,
       <<"s","o","b","h","a">>,
       <<"b","r","i","g","a","d","e">>,
       <<"p","u","r","a","v","a","n","k","a","r","a">>,
       <<"g","o","d","r","e","j">>,
       <<"e","m","b","a","s","s","y">>,
       <<"l","&","t">>,
       <<"l"," ","&"," ","t">>,
       <<"s","a","l","a","r","p","u","r","i","a">>,
       <<"s","a","t","t","v","a">>,
       <<"a","s","s","e","t","z">>,
       <<"c","a","s","a","g","r","a","n","d">> >>

\* PropertyFinder.check_preferred_builder
check_preferred_builder(text) ==
    IF ~Truthy(text) THEN FALSE
    ELSE \E b \in 1..Len(preferred_builders) : Contains(Lower(text), preferred_builders[b])

\* the value of "Preferred Builder" for a preferred builder (a star, then YES)
StarYes == "* YES"

\* ------------------------------------------------------- validation policy

\* PropertyFinder.validate_property; self is the finder's criteria
\* validate_property with the RERA check of its comment put back in force
validate_property_rera(self, property_data) ==
    IF /\ self.budget_max # 0
       /\ FloatTruthy(property_data.price_numeric)
       /\ RatGT(property_data.price_numeric, self.budget_max)
      THEN FALSE
    ELSE IF /\ property_data.bhk # None
            /\ property_data.bhk # ""
            /\ property_data.bhk \notin self.bedrooms
      THEN FALSE
    ELSE IF self.rera_req = "Yes" /\ property_data.rera = "No"
      THEN FALSE
    ELSE IF self.preferred_only /\ property_data.preferred_builder # StarYes
      THEN FALSE
    ELSE TRUE

validate_property(self, property_data) ==
    IF /\ self.budget_max # 0
       /\ FloatTruthy(property_data.price_numeric)
       /\ RatGT(property_data.price_numeric, self.budget_max)
      THEN FALSE
    ELSE IF /\ property_data.bhk # None
            /\ property_data.bhk # ""
            /\ property_data.bhk \notin self.bedrooms
      THEN FALSE
    ELSE IF self.preferred_only /\ property_data.preferred_builder # StarYes
      THEN FALSE
    ELSE TRUE

\* ------------------------------------------------------------ listing rows

\* a text as the string a dict holds, None for a missing one
Str(t) == IF t = NoText THEN None ELSE Join(t)

\* elem.text.strip() if elem else None
StripText(t) == IF t = NoText THEN NoText ELSE Strip(t)

\* str.startswith on an optional text
StartsWith(t, p) == t # NoText /\ StartsAt(t, 1, p)

Http == <<"h","t","t","p">>

\* A listing fragment is what the selectors find in one card: the title, the
\* builder (society or subtitle), the price and the link's href, NoText for a
\* missing sub-fragment, and whether some string of the card matches "rera".

\* PropertyFinder.scrape_magicbricks: property_data of one card
magicbricks_data(prop) ==
    LET title == StripText(prop.title)
        project == StripText(prop.builder)
        price == StripText(prop.price)
    IN  [ property |-> Str(title),
          builder |-> Str(project),
          price |-> Str(price),
          price_numeric |-> extract_price_numeric(price),
          rera |-> IF prop.rera THEN "Yes" ELSE "Not Mentioned",
          property_url |->
              IF StartsWith(prop.href, Http) THEN Join(prop.href)
              ELSE IF Truthy(prop.href)
                   THEN "https://www.magicbricks.com" \o Join(prop.href)
                   ELSE None,
          bhk |-> extract_bhk(IF title = NoText THEN <<"N","o","n","e">> ELSE title),
          preferred_builder |-> IF check_preferred_builder(project) THEN StarYes ELSE "No",
          source |-> None ]

\* PropertyFinder.scrape_housing: property_data of one card
housing_data(prop) ==
    LET title == StripText(prop.title)
        builder == StripText(prop.builder)
        price == StripText(prop.price)
    IN  [ property |-> Str(title),
          builder |-> Str(builder),
          price |-> Str(price),
          price_numeric |-> extract_price_numeric(price),
          rera |-> IF prop.rera THEN "Yes" ELSE "Not Mentioned",
          property_url |->
              IF Truthy(prop.href)
              THEN IF StartsWith(prop.href, <<"/">>)
                   THEN "https://housing.com" \o Join(prop.href)
                   ELSE Join(prop.href)
              ELSE None,
          bhk |-> extract_bhk(IF title = NoText THEN <<"N","o","n","e">> ELSE title),
          preferred_builder |-> IF check_preferred_builder(builder) THEN StarYes ELSE "No",
          source |-> None ]

\* One row of PropertyFinder.all_data: property_data.get(key) for the keys of
\* all_data (the keys that no adapter fills with more than a copy or None are
\* left out: Project, Rating, Places Nearby, Price per Sq.ft, the areas,
\* Description, Posted Date, Posted By).
Row(property_data) ==
    [ Source |-> property_data.source,
      Property |-> property_data.property,
      Builder |-> property_data.builder,
      Preferred_Builder |-> property_data.preferred_builder,
      BHK |-> property_data.bhk,
      Price |-> property_data.price,
      Price_Numeric |-> property_data.price_numeric,
      RERA |-> property_data.rera,
      Property_URL |-> property_data.property_url ]

\* ----------------------------------------------------------------- aggregator

\* drop_duplicates with a missing value equal to no other missing value
RECURSIVE drop_duplicates_na_distinct(_)
drop_duplicates_na_distinct(rows) ==
    IF rows = <<>> THEN <<>>
    ELSE LET init == SubSeq(rows, 1, Len(rows) - 1)
             last == rows[Len(rows)]
         IN  IF /\ last.Property # None
                /\ last.Price # None
                /\ \E i \in 1..Len(init) :
                      /\ init[i].Property = last.Property
                      /\ init[i].Price = last.Price
             THEN drop_duplicates_na_distinct(init)
             ELSE Append(drop_duplicates_na_distinct(init), last)

\* drop_duplicates with keep="last"
RECURSIVE drop_duplicates_keep_last(_)
drop_duplicates_keep_last(rows) ==
    IF rows = <<>> THEN <<>>
    ELSE LET rest == SubSeq(rows, 2, Len(rows))
         IN  IF \E i \in 1..Len(rest) :
                    /\ rest[i].Property = rows[1].Property
                    /\ rest[i].Price = rows[1].Price
             THEN drop_duplicates_keep_last(rest)
             ELSE <<rows[1]>> \o drop_duplicates_keep_last(rest)

\* DataFrame.drop_duplicates(subset=["Property", "Price"], keep="first")
RECURSIVE drop_duplicates(_)
drop_duplicates(rows) ==
    IF rows = <<>> THEN <<>>
    ELSE LET init == SubSeq(rows, 1, Len(rows) - 1)
             last == rows[Len(rows)]
         IN  IF \E i \in 1..Len(init) :
                    /\ init[i].Property = last.Property
                    /\ init[i].Price = last.Price
             THEN drop_duplicates(init)
             ELSE Append(drop_duplicates(init), last)

\* lambda x: 0 if the star is in str(x) else 1
Sort_Preferred(row) == IF row.Preferred_Builder = StarYes THEN 0 ELSE 1

\* a goes strictly before b by ["Sort_Preferred", "Price Numeric"], ascending,
\* a missing Price Numeric last
SortsBefore(a, b) ==
    \/ Sort_Preferred(a) < Sort_Preferred(b)
    \/ /\ Sort_Preferred(a) = Sort_Preferred(b)
       /\ a.Price_Numeric # NoFloat
       /\ \/ b.Price_Numeric = NoFloat
          \/ a.Price_Numeric.n * b.Price_Numeric.d < b.Price_Numeric.n * a.Price_Numeric.d

\* row put into the sorted rows after every row that does not sort after it
RECURSIVE Insert(_, _)
Insert(sorted, row) ==
    IF sorted = <<>> THEN <<row>>
    ELSE IF SortsBefore(row, sorted[Len(sorted)])
         THEN Append(Insert(SubSeq(sorted, 1, Len(sorted) - 1), row), sorted[Len(sorted)])
         ELSE Append(sorted, row)

\* sort_values by "Price Numeric" alone
RECURSIVE sort_values_by_price(_)
sort_values_by_price(rows) ==
    IF rows = <<>> THEN <<>>
    ELSE LET rest == sort_values_by_price(SubSeq(rows, 1, Len(rows) - 1))
             row == rows[Len(rows)]
             before == { i \in 1..Len(rest) :
                           \/ rest[i].Price_Numeric = NoFloat
                           \/ /\ row.Price_Numeric # NoFloat
                              /\ row.Price_Numeric.n * rest[i].Price_Numeric.d
                                    < rest[i].Price_Numeric.n * row.Price_Numeric.d }
             k == IF before = {} THEN Len(rest) + 1
                  ELSE CHOOSE i \in before : \A j \in before : i <= j
         IN  SubSeq(rest, 1, k - 1) \o <<row>> \o SubSeq(rest, k, Len(rest))

\* DataFrame.sort_values(by=["Sort_Preferred", "Price Numeric"]), stable
RECURSIVE sort_values(_)
sort_values(rows) ==
    IF rows = <<>> THEN <<>>
    ELSE Insert(sort_values(SubSeq(rows, 1, Len(rows) - 1)), rows[Len(rows)])

\* PropertyFinder.get_results_df, as df.to_dict("records") gives it
get_results_df(all_data) == sort_values(drop_duplicates(all_data))

\* ------------------------------------------------------------------- state

VARIABLES
    scraping_status,  \* the dict the global name scraping_status is bound to
    response,         \* what the last request handled returned
    requests,         \* number of requests handled so far
    started,          \* number of scrape_thread workers started so far
    pc,               \* pc[w]: where worker w stands in scrape_thread
    args,             \* args[w]: what scrape_thread closes over (pages, sites, criteria)
    site,             \* site[w]: index in SiteOrder of the adapter scrape_all is at
    page,             \* page[w]: the adapter's loop variable
    boxes,            \* boxes[w]: property_boxes of the page not yet looped over
    all_data,         \* all_data[w]: the rows of the worker's finder.all_data
    driver,           \* driver[w]: the worker's browser session
    served,           \* number of fragments the sites have served
    fetchLog,         \* history: the page fetches worker w has begun
    lastEmpty,        \* history: the <<site, page>> of w's last fetch that found no fragment
    cancelled,        \* history: a stop request was accepted for w's run
    outcome,          \* history: how w's try block ended
    vin,              \* input of a validate_property call
    vout              \* result of that call

vars ==
    << scraping_status, response, requests, started, pc, args, site, page, boxes, all_data,
       driver, served, fetchLog, lastEmpty, cancelled, outcome, vin, vout >>

workerVars ==
    << pc, args, site, page, boxes, all_data, driver, served, fetchLog, lastEmpty, outcome >>

\* the worker threads: each start request accepted starts one
Workers == 1..MaxRuns

\* the order of scrape_all, by the keys of "sites"
SiteOrder == <<"99acres", "magicbricks", "housing">>

\* what each adapter writes to current_site and passes to add_property
SiteName == <<"99acres", "MagicBricks", "Housing.com">>

\* results: None, or a list
NoResults == <<>>

List(rows) == <<rows>>

Items(results) == results[1]

\* the module-level scraping_status
InitialStatus ==
    [ running |-> FALSE,
      progress |-> 0,
      message |-> "Ready to start",
      current_site |-> "",
      properties_found |-> 0,
      results |-> NoResults ]

\* what a handler returns: the status code, the "status" (or "error") of the
\* JSON body, and the rows of the file sent with it, if any (no handler gets
\* as far as send_file)
Response(op, code, body) ==
    [op |-> op, code |-> code, body |-> body, file |-> NoResults]

NoArgs ==
    [ pages |-> 0, sites |-> {},
      finder |-> [budget_max |-> 0, bedrooms |-> {}, rera_req |-> "", preferred_only |-> FALSE] ]

NoCall ==
    [ self |-> NoArgs.finder,
      property_data |-> [price_numeric |-> NoFloat, bhk |-> None, preferred_builder |-> "No", rera |-> ""] ]

MachineInit ==
    /\ scraping_status = InitialStatus
    /\ response = Response("", 0, "")
    /\ requests = 0
    /\ started = 0
    /\ pc = [w \in Workers |-> "idle"]
    /\ args = [w \in Workers |-> NoArgs]
    /\ site = [w \in Workers |-> 0]
    /\ page = [w \in Workers |-> 0]
    /\ boxes = [w \in Workers |-> <<>>]
    /\ all_data = [w \in Workers |-> <<>>]
    /\ driver = [w \in Workers |-> "none"]
    /\ served = 0
    /\ fetchLog = [w \in Workers |-> <<>>]
    /\ lastEmpty = [w \in Workers |-> <<0, 0>>]
    /\ cancelled = [w \in Workers |-> FALSE]
    /\ outcome = [w \in Workers |-> "none"]

\* vout before the call returns
NotCalled == [called |-> FALSE, result |-> FALSE]

Init ==
    /\ MachineInit
    /\ vin = NoCall
    /\ vout = NotCalled

\* ------------------------------------------------------------------ inputs

\* the cards the sites serve
Fragments ==
    { [ title |-> <<"3"," ","B","H","K">>, builder |-> <<"S","o","b","h","a">>,
        price |-> <<"2"," ","L","a","c">>, href |-> <<"/","p","1">>, rera |-> TRUE ],
      [ title |-> <<"2","b","h","k">>, builder |-> NoText,
        price |-> <<"0",".","0","3"," ","C","r">>, href |-> NoText, rera |-> FALSE ],
      [ title |-> NoText, builder |-> NoText,
        price |-> NoText, href |-> <<"p","2">>, rera |-> FALSE ] }

\* the non-empty property_boxes one page can hold
BoxLists == UNION { [1..n -> Fragments] : n \in 1..MaxBoxes }

\* The JSON bodies of the start requests; "sites" is the set of keys whose
\* value is true.
StartInputs ==
    { [pages |-> 1, budget |-> MaxBudget, bhk |-> {"2", "3"}, rera |-> "Yes",
       preferred |-> FALSE, sites |-> {"99acres", "magicbricks", "housing"}],
      [pages |-> MaxPages, budget |-> 0, bhk |-> {"3"}, rera |-> "No",
       preferred |-> TRUE, sites |-> {"99acres"}],
      [pages |-> 1, budget |-> 0, bhk |-> {"3"}, rera |-> "No",
       preferred |-> TRUE, sites |-> {"99acres"}],
      [pages |-> 1, budget |-> 0, bhk |-> {"3"}, rera |-> "No",
       preferred |-> TRUE, sites |-> {"magicbricks"}],
      [pages |-> MaxPages, budget |-> MaxBudget, bhk |-> {"2", "3"}, rera |-> "Yes",
       preferred |-> FALSE, sites |-> {"magicbricks", "housing"}] }

\* a row of an uploaded CSV, as read_csv and fillna("") give it
ImportedRow ==
    [ Source |-> "MagicBricks", Property |-> "3 BHK", Builder |-> "Sobha",
      Preferred_Builder |-> StarYes, BHK |-> "3", Price |-> "2 Lac",
      Price_Numeric |-> Rat(200000, 1), RERA |-> "Yes", Property_URL |-> "" ]

\* the uploads of the import requests: no file part, an empty file name, a
\* file read_csv cannot parse, or the rows of a file it can
Uploads ==
    { [kind |-> "missing", rows |-> <<>>], [kind |-> "noname", rows |-> <<>>],
      [kind |-> "malformed", rows |-> <<>>],
      [kind |-> "csv", rows |-> <<ImportedRow>>] }

\* property_data of every card, by the index of the adapter that reads it
\* (scrape_99acres adds no card: see adapter_box)
property_data_of ==
    [ s \in {2, 3} |->
        [ prop \in Fragments |->
            IF s = 2 THEN magicbricks_data(prop) ELSE housing_data(prop) ] ]

\* -------------------------------------------------------- request handlers

\* start_scraping reading the budget in thousands
start_scraping_thousands(data) ==
    IF scraping_status.running
    THEN /\ response' = Response("start", 400, "error")
         /\ UNCHANGED << scraping_status, started, workerVars, cancelled >>
    ELSE /\ started < MaxRuns
         /\ started' = started + 1
         /\ scraping_status' =
                [ running |-> TRUE,
                  progress |-> 0,
                  message |-> "Starting scraper...",
                  current_site |-> "",
                  properties_found |-> 0,
                  results |-> NoResults ]
         /\ args' = [args EXCEPT ![started + 1] =
                [ pages |-> data.pages,
                  sites |-> data.sites,
                  finder |-> [ budget_max |-> data.budget * 1000,
                               bedrooms |-> data.bhk,
                               rera_req |-> data.rera,
                               preferred_only |-> data.preferred ] ]]
         /\ pc' = [pc EXCEPT ![started + 1] = "begin"]
         /\ response' = Response("start", 200, "started")
         /\ UNCHANGED << site, page, boxes, all_data, driver, served, fetchLog,
                         lastEmpty, outcome, cancelled >>

\* start_scraping without its test of running
start_scraping_unguarded(data) ==
    /\ started < MaxRuns
    /\ started' = started + 1
    /\ scraping_status' =
           [ running |-> TRUE,
             progress |-> 0,
             message |-> "Starting scraper...",
             current_site |-> "",
             properties_found |-> 0,
             results |-> NoResults ]
    /\ args' = [args EXCEPT ![started + 1] =
           [ pages |-> data.pages,
             sites |-> data.sites,
             finder |-> [ budget_max |-> data.budget * 100000,
                          bedrooms |-> data.bhk,
                          rera_req |-> data.rera,
                          preferred_only |-> data.preferred ] ]]
    /\ pc' = [pc EXCEPT ![started + 1] = "begin"]
    /\ response' = Response("start", 200, "started")
    /\ UNCHANGED << site, page, boxes, all_data, driver, served, fetchLog,
                    lastEmpty, outcome, cancelled >>

\* start_scraping, with the rebinding of scraping_status and Thread.start()
start_scraping(data) ==
    IF scraping_status.running
    THEN /\ response' = Response("start", 400, "error")
         /\ UNCHANGED << scraping_status, started, workerVars, cancelled >>
    ELSE /\ started < MaxRuns
         /\ started' = started + 1
         /\ scraping_status' =
                [ running |-> TRUE,
                  progress |-> 0,
                  message |-> "Starting scraper...",
                  current_site |-> "",
                  properties_found |-> 0,
                  results |-> NoResults ]
         /\ args' = [args EXCEPT ![started + 1] =
                [ pages |-> data.pages,
                  sites |-> data.sites,
                  finder |-> [ budget_max |-> data.budget * 100000,
                               bedrooms |-> data.bhk,
                               rera_req |-> data.rera,
                               preferred_only |-> data.preferred ] ]]
         /\ pc' = [pc EXCEPT ![started + 1] = "begin"]
         /\ response' = Response("start", 200, "started")
         /\ UNCHANGED << site, page, boxes, all_data, driver, served, fetchLog,
                         lastEmpty, outcome, cancelled >>

\* get_status
get_status ==
    /\ response' = Response("status", 200, "snapshot")
    /\ UNCHANGED << scraping_status, started, workerVars, cancelled >>

\* stop_scraping without its test of running
stop_scraping_unguarded ==
    /\ scraping_status' =
           [scraping_status EXCEPT !.running = FALSE,
                                   !.message = "Search stopped by user"]
    /\ response' = Response("stop", 200, "stopped")
    /\ cancelled' = cancelled
    /\ UNCHANGED << started, workerVars >>

\* stop_scraping
stop_scraping ==
    IF scraping_status.running
    THEN /\ scraping_status' =
                [scraping_status EXCEPT !.running = FALSE,
                                        !.message = "Search stopped by user"]
         /\ response' = Response("stop", 200, "stopped")
         /\ cancelled' = [cancelled EXCEPT ![started] = TRUE]
         /\ UNCHANGED << started, workerVars >>
    ELSE /\ response' = Response("stop", 200, "not_running")
         /\ UNCHANGED << scraping_status, started, workerVars, cancelled >>

\* export_csv: 400 when results is None or empty; otherwise io.StringIO()
\* raises NameError (the module imports neither io nor csv) and Flask answers
\* 500
export_csv ==
    /\ response' =
          IF scraping_status.results \in {NoResults, List(<<>>)}
          THEN Response("export", 400, "error")
          ELSE Response("export", 500, "NameError")
    /\ UNCHANGED << scraping_status, started, workerVars, cancelled >>

\* import_csv_route emptying results before it reads the file
import_csv_route_clears_first(file) ==
    /\ UNCHANGED << started, workerVars, cancelled >>
    /\ IF file.kind \in {"missing", "noname"}
       THEN /\ response' = Response("import", 400, "error")
            /\ UNCHANGED scraping_status
       ELSE IF file.kind = "malformed"
       THEN /\ response' = Response("import", 500, "error")
            /\ scraping_status' = [scraping_status EXCEPT !.results = List(<<>>)]
       ELSE /\ scraping_status' =
                   [scraping_status EXCEPT !.results = List(file.rows),
                                           !.properties_found = Len(file.rows),
                                           !.message = "Imported"]
            /\ response' = Response("import", 200, "success")

\* import_csv_route
import_csv_route(file) ==
    /\ UNCHANGED << started, workerVars, cancelled >>
    /\ IF file.kind \in {"missing", "noname"}
       THEN /\ response' = Response("import", 400, "error")
            /\ UNCHANGED scraping_status
       ELSE IF file.kind = "malformed"
       THEN /\ response' = Response("import", 500, "error")
            /\ UNCHANGED scraping_status
       ELSE /\ scraping_status' =
                   [scraping_status EXCEPT !.results = List(file.rows),
                                           !.properties_found = Len(file.rows),
                                           !.message = "Imported"]
            /\ response' = Response("import", 200, "success")

\* ------------------------------------------------------- the worker thread

\* scrape_thread, its first statement: results = [] for live updates
thread_begin(w) ==
    /\ pc[w] = "begin"
    /\ scraping_status' = [scraping_status EXCEPT !.results = List(<<>>)]
    /\ pc' = [pc EXCEPT ![w] = "setup"]
    /\ UNCHANGED << response, requests, started, args, site, page, boxes, all_data, driver,
                    served, fetchLog, lastEmpty, cancelled, outcome >>

\* PropertyFinder(...) and scrape_all up to its try: setup_driver opens the
\* browser session
setup_driver(w) ==
    /\ pc[w] = "setup"
    /\ driver' = [driver EXCEPT ![w] = "open"]
    /\ site' = [site EXCEPT ![w] = 1]
    /\ pc' = [pc EXCEPT ![w] = "site"]
    /\ UNCHANGED << scraping_status, response, requests, started, args, page, boxes, all_data,
                    served, fetchLog, lastEmpty, cancelled, outcome >>

\* setup_driver raises (webdriver.Chrome cannot start): the exception leaves
\* scrape_all before its try and reaches the except of scrape_thread
setup_driver_raises(w) ==
    /\ pc[w] = "setup"
    /\ pc' = [pc EXCEPT ![w] = "except"]
    /\ UNCHANGED << scraping_status, response, requests, started, args, site, page, boxes,
                    all_data, driver, served, fetchLog, lastEmpty, cancelled, outcome >>

\* scrape_all: the next "if sites.get(...) and scraping_status['running']"
\* with the first statement of the adapter it calls, or, after the last one,
\* the finally: driver.quit()
scrape_all(w) ==
    /\ pc[w] = "site"
    /\ UNCHANGED << response, requests, started, args, boxes, all_data, served,
                    fetchLog, lastEmpty, cancelled, outcome >>
    /\ IF site[w] > Len(SiteOrder)
       THEN /\ driver' = [driver EXCEPT ![w] = "quit"]
            /\ pc' = [pc EXCEPT ![w] = "results"]
            /\ UNCHANGED << scraping_status, site, page >>
       ELSE IF SiteOrder[site[w]] \in args[w].sites /\ scraping_status.running
       THEN /\ scraping_status' =
                   [scraping_status EXCEPT !.current_site = SiteName[site[w]]]
            /\ page' = [page EXCEPT ![w] = 1]
            /\ pc' = [pc EXCEPT ![w] = "page"]
            /\ UNCHANGED << site, driver >>
       ELSE /\ site' = [site EXCEPT ![w] = site[w] + 1]
            /\ UNCHANGED << scraping_status, page, pc, driver >>

\* An adapter's "for page in range(1, max_pages + 1)": the end of the loop,
\* the break on "not running", or the message and the start of driver.get(url)
adapter_page(w) ==
    /\ pc[w] = "page"
    /\ UNCHANGED << response, requests, started, args, page, boxes, all_data, driver, served,
                    lastEmpty, cancelled, outcome >>
    /\ IF page[w] > args[w].pages \/ ~scraping_status.running
       THEN /\ site' = [site EXCEPT ![w] = site[w] + 1]
            /\ pc' = [pc EXCEPT ![w] = "site"]
            /\ UNCHANGED << scraping_status, fetchLog >>
       ELSE /\ scraping_status' = [scraping_status EXCEPT !.message = "Scraping"]
            /\ fetchLog' = [fetchLog EXCEPT ![w] =
                   Append(fetchLog[w], << site[w], page[w] >>)]
            /\ pc' = [pc EXCEPT ![w] = "fetch"]
            /\ UNCHANGED site

\* no_boxes with the "continue" of scrape_99acres in every adapter
no_boxes_continue(w) ==
    /\ page' = [page EXCEPT ![w] = page[w] + 1]
    /\ pc' = [pc EXCEPT ![w] = "page"]
    /\ UNCHANGED site

\* what follows a page that found no property_boxes: "continue" in
\* scrape_99acres, "break" in scrape_magicbricks and scrape_housing
no_boxes(w) ==
    IF site[w] = 1
    THEN /\ page' = [page EXCEPT ![w] = page[w] + 1]
         /\ pc' = [pc EXCEPT ![w] = "page"]
         /\ UNCHANGED site
    ELSE /\ site' = [site EXCEPT ![w] = site[w] + 1]
         /\ pc' = [pc EXCEPT ![w] = "site"]
         /\ UNCHANGED page

\* fetch_empty with an exception that escapes the adapter and scrape_all
fetch_empty_raises(w) ==
    /\ pc[w] = "fetch"
    /\ lastEmpty' = [lastEmpty EXCEPT ![w] = <<site[w], page[w]>>]
    /\ pc' = [pc EXCEPT ![w] = "except"]
    /\ UNCHANGED << scraping_status, response, requests, started, args, site, page, boxes,
                    all_data, driver, served, fetchLog, cancelled, outcome >>

\* the page fetch ends with no fragment in the rendered markup
fetch_empty(w) ==
    /\ pc[w] = "fetch"
    /\ lastEmpty' = [lastEmpty EXCEPT ![w] = <<site[w], page[w]>>]
    /\ no_boxes(w)
    /\ UNCHANGED << scraping_status, response, requests, started, args, boxes, all_data, driver,
                    served, fetchLog, cancelled, outcome >>

\* the page fetch ends with fragments: property_boxes; the sites serve no
\* more than limit cards in all
fetch_boxes_upto(w, found, limit) ==
    /\ pc[w] = "fetch"
    /\ served + Len(found) <= limit
    /\ served' = served + Len(found)
    /\ boxes' = [boxes EXCEPT ![w] = found]
    /\ pc' = [pc EXCEPT ![w] = "box"]
    /\ UNCHANGED << scraping_status, response, requests, started, args, site, page, all_data,
                    driver, fetchLog, lastEmpty, cancelled, outcome >>

\* fetch_raises with an exception that escapes the adapter and scrape_all
fetch_raises_aborts(w) ==
    /\ pc[w] = "fetch"
    /\ pc' = [pc EXCEPT ![w] = "except"]
    /\ UNCHANGED << scraping_status, response, requests, started, args, site, page, boxes,
                    all_data, driver, served, fetchLog, lastEmpty, cancelled, outcome >>

\* fetch_raises with a retry of the same page
fetch_raises_retry(w) ==
    /\ pc[w] = "fetch"
    /\ pc' = [pc EXCEPT ![w] = "page"]
    /\ UNCHANGED << scraping_status, response, requests, started, args, site, page, boxes,
                    all_data, driver, served, fetchLog, lastEmpty, cancelled, outcome >>

\* driver.get or what follows it in the page's try raises: the except of the
\* page, then the next page
fetch_raises(w) ==
    /\ pc[w] = "fetch"
    /\ page' = [page EXCEPT ![w] = page[w] + 1]
    /\ pc' = [pc EXCEPT ![w] = "page"]
    /\ UNCHANGED << scraping_status, response, requests, started, args, site, boxes, all_data,
                    driver, served, fetchLog, lastEmpty, cancelled, outcome >>

\* PropertyFinder.add_property(source, property_data) from an adapter, with the
\* adapter's update of properties_found after it.  The append to
\* scraping_status["results"] raises when results is None; the except of the
\* listing swallows it, after all_data took the row.
add_property(w, source, property_data) ==
    /\ all_data' = [all_data EXCEPT ![w] = Append(all_data[w], Row(property_data))]
    /\ IF scraping_status.results = NoResults
       THEN UNCHANGED scraping_status
       ELSE scraping_status' =
                [scraping_status EXCEPT
                    !.results = List(Append(Items(scraping_status.results),
                                            [Row(property_data) EXCEPT !.Source = source])),
                    !.properties_found = Len(all_data[w]) + 1]

\* adapter_box with no call of validate_property before add_property
adapter_box_unvalidated(w) ==
    /\ pc[w] = "box"
    /\ UNCHANGED << response, requests, started, args, site, driver, served, fetchLog,
                    lastEmpty, cancelled, outcome >>
    /\ IF boxes[w] = <<>> \/ ~scraping_status.running
       THEN /\ boxes' = [boxes EXCEPT ![w] = <<>>]
            /\ page' = [page EXCEPT ![w] = page[w] + 1]
            /\ pc' = [pc EXCEPT ![w] = "page"]
            /\ UNCHANGED << scraping_status, all_data >>
       ELSE /\ boxes' = [boxes EXCEPT ![w] = Tail(boxes[w])]
            /\ UNCHANGED << page, pc >>
            /\ IF site[w] # 1
               THEN add_property(w, SiteName[site[w]], property_data_of[site[w]][Head(boxes[w])])
               ELSE UNCHANGED << scraping_status, all_data >>

\* One round of "for prop in property_boxes": the end of the loop, the break
\* on "not running", or one card.  scrape_99acres calls
\* self.add_property(property_data), one argument short: the TypeError (or
\* the budget "continue", or the AttributeError of self.is_preferred_builder)
\* ends the round with nothing added.
adapter_box(w) ==
    /\ pc[w] = "box"
    /\ UNCHANGED << response, requests, started, args, site, driver, served, fetchLog,
                    lastEmpty, cancelled, outcome >>
    /\ IF boxes[w] = <<>> \/ ~scraping_status.running
       THEN /\ boxes' = [boxes EXCEPT ![w] = <<>>]
            /\ page' = [page EXCEPT ![w] = page[w] + 1]
            /\ pc' = [pc EXCEPT ![w] = "page"]
            /\ UNCHANGED << scraping_status, all_data >>
       ELSE /\ boxes' = [boxes EXCEPT ![w] = Tail(boxes[w])]
            /\ UNCHANGED << page, pc >>
            /\ IF /\ site[w] # 1
                  /\ validate_property(args[w].finder, property_data_of[site[w]][Head(boxes[w])])
               THEN add_property(w, SiteName[site[w]], property_data_of[site[w]][Head(boxes[w])])
               ELSE UNCHANGED << scraping_status, all_data >>

\* thread_completed aggregating the live results instead of the finder's
\* all_data
thread_completed_live(w) ==
    /\ pc[w] = "results"
    /\ scraping_status' =
           [scraping_status EXCEPT
               !.results = IF scraping_status.results = NoResults THEN List(<<>>)
                           ELSE List(get_results_df(Items(scraping_status.results))),
               !.message = "Completed",
               !.progress = 100]
    /\ outcome' = [outcome EXCEPT ![w] = "completed"]
    /\ pc' = [pc EXCEPT ![w] = "finally"]
    /\ UNCHANGED << response, requests, started, args, site, page, boxes, all_data, driver,
                    served, fetchLog, lastEmpty, cancelled >>

\* scrape_thread after scrape_all: df = finder.get_results_df();
\* results = df.to_dict("records"); message = "Completed! ..."; progress = 100
thread_completed(w) ==
    /\ pc[w] = "results"
    /\ scraping_status' =
           [scraping_status EXCEPT !.results = List(get_results_df(all_data[w])),
                                   !.message = "Completed",
                                   !.progress = 100]
    /\ outcome' = [outcome EXCEPT ![w] = "completed"]
    /\ pc' = [pc EXCEPT ![w] = "finally"]
    /\ UNCHANGED << response, requests, started, args, site, page, boxes, all_data, driver,
                    served, fetchLog, lastEmpty, cancelled >>

\* thread_except without the store of the message
thread_except_silent(w) ==
    /\ pc[w] = "except"
    /\ outcome' = [outcome EXCEPT ![w] = "error"]
    /\ pc' = [pc EXCEPT ![w] = "finally"]
    /\ UNCHANGED << scraping_status, response, requests, started, args, site, page, boxes,
                    all_data, driver, served, fetchLog, lastEmpty, cancelled >>

\* scrape_thread: except Exception as e: message = f"Error: {e}"
thread_except(w) ==
    /\ pc[w] = "except"
    /\ scraping_status' = [scraping_status EXCEPT !.message = "Error"]
    /\ outcome' = [outcome EXCEPT ![w] = "error"]
    /\ pc' = [pc EXCEPT ![w] = "finally"]
    /\ UNCHANGED << response, requests, started, args, site, page, boxes, all_data, driver,
                    served, fetchLog, lastEmpty, cancelled >>

\* thread_finally without the store of running
thread_finally_leaves_running(w) ==
    /\ pc[w] = "finally"
    /\ pc' = [pc EXCEPT ![w] = "done"]
    /\ site' = [site EXCEPT ![w] = 0]
    /\ page' = [page EXCEPT ![w] = 0]
    /\ all_data' = [all_data EXCEPT ![w] = <<>>]
    /\ driver' = [driver EXCEPT ![w] = "none"]
    /\ fetchLog' = [fetchLog EXCEPT ![w] = <<>>]
    /\ UNCHANGED << scraping_status, response, requests, started, args, lastEmpty, boxes,
                    served, cancelled, outcome >>

\* scrape_thread: finally: running = False; the thread ends, and with it its
\* finder (all_data, driver) and its loop variables; the request it served
\* and the record of its last empty page stay readable
thread_finally(w) ==
    /\ pc[w] = "finally"
    /\ scraping_status' = [scraping_status EXCEPT !.running = FALSE]
    /\ pc' = [pc EXCEPT ![w] = "done"]
    /\ site' = [site EXCEPT ![w] = 0]
    /\ page' = [page EXCEPT ![w] = 0]
    /\ all_data' = [all_data EXCEPT ![w] = <<>>]
    /\ driver' = [driver EXCEPT ![w] = "none"]
    /\ fetchLog' = [fetchLog EXCEPT ![w] = <<>>]
    /\ UNCHANGED << response, requests, started, args, lastEmpty, boxes, served,
                    cancelled, outcome >>

\* fetch_boxes_upto with the card budget of the whole machine
fetch_boxes(w, found) == fetch_boxes_upto(w, found, MaxFragments)

\* one step of worker w, the sites serving no more than limit cards in all
scrape_thread_upto(w, limit) ==
    \/ thread_begin(w)
    \/ setup_driver(w)
    \/ setup_driver_raises(w)
    \/ scrape_all(w)
    \/ adapter_page(w)
    \/ fetch_empty(w)
    \/ \E found \in BoxLists : fetch_boxes_upto(w, found, limit)
    \/ fetch_raises(w)
    \/ adapter_box(w)
    \/ thread_completed(w)
    \/ thread_except(w)
    \/ thread_finally(w)

\* one step of worker w
scrape_thread(w) == scrape_thread_upto(w, MaxFragments)

\* ----------------------------------------------------------- specification

\* one request handled, from its first statement to its return
Requests ==
    /\ requests < MaxRequests
    /\ requests' = requests + 1
    /\ \/ \E data \in StartInputs : start_scraping(data)
       \/ get_status
       \/ stop_scraping
       \/ \E file \in Uploads : import_csv_route(file)
       \/ export_csv

Next ==
    \/ Requests /\ UNCHANGED << vin, vout >>
    \/ \E w \in Workers : scrape_thread(w) /\ UNCHANGED << vin, vout >>

Spec == Init /\ [][Next]_vars

\* The worker is a daemon thread of a live process: whenever it has a step to
\* take it eventually takes one.  Requests are under no such obligation.
FairSpec ==
    /\ Spec
    /\ \A w \in Workers : WF_vars(scrape_thread(w) /\ UNCHANGED << vin, vout >>)

\* ------------------------------------------------- one run, left to itself

\* the cards the sites serve to a run left to itself
MaxRunFragments == 2

\* one start request, and then only the steps of the workers: no stop, no
\* import, no second start
RunNext ==
    \/ /\ requests = 0
       /\ requests' = 1
       /\ \E data \in StartInputs : start_scraping(data)
       /\ UNCHANGED << vin, vout >>
    \/ \E w \in Workers : scrape_thread_upto(w, MaxRunFragments) /\ UNCHANGED << vin, vout >>

RunSpec == Init /\ [][RunNext]_vars

\* ------------------------------------------- validate_property on its own

\* budget_max as start_scraping computes it, 0 for "no budget"
Budgets == { b * 100000 : b \in 0..MaxBudget }

\* price_numeric: None, 0, and for every budget the budget itself and the
\* amounts a tenth of a rupee under and over it
Prices ==
    {NoFloat, Rat(0, 1)}
        \cup { Rat(b * 1000000 + d, 10) : b \in 1..MaxBudget, d \in {-1, 0, 1} }

\* bhk: what extract_bhk returns (None or digits), the empty string, and the
\* "Unknown" that scrape_99acres writes when it finds no digit
BhkValues == {None, "", "2", "3", "4", "Unknown"}

ReraRequirements == {"Yes", "No"}

ReraValues == {"Yes", "No", "Not Mentioned"}

ValidateCalls ==
    [ self : [ budget_max : Budgets,
               bedrooms : {{}, {"2"}, {"2", "3"}},
               rera_req : ReraRequirements,
               preferred_only : BOOLEAN ],
      property_data : [ price_numeric : Prices,
                        bhk : BhkValues,
                        preferred_builder : {StarYes, "No"},
                        rera : ReraValues ] ]

ValInit ==
    /\ MachineInit
    /\ vin \in ValidateCalls
    /\ vout = NotCalled

\* the call finder.validate_property(property_data)
ValidateCall ==
    /\ ~vout.called
    /\ vout' = [called |-> TRUE,
                result |-> validate_property(vin.self, vin.property_data)]
    /\ UNCHANGED << scraping_status, response, requests, started, workerVars, cancelled, vin >>

ValNext == ValidateCall

ValSpec == ValInit /\ [][ValNext]_vars

\* ------------------------------------------------------------------ claims

\* the workers that stand inside an adapter's page: in driver.get and what
\* follows it, or in the loop over the cards of the page
InAdapter == { w \in Workers : pc[w] \in {"fetch", "box"} }

\* C1: across any interleaving of start requests, stop requests and worker
\* steps, at most one worker is executing adapter code (fetching a page or
\* appending listings) at any time.
C1_OneWorkerInAdapters == Cardinality(InAdapter) <= 1

\* C2: a start request handled while running is true is answered with a 400
\* error, starts no worker, and leaves every field of scraping_status as it
\* was.
C2_StartWhileRunningRejected ==
    [][ ( /\ requests' = requests + 1
          /\ response'.op = "start"
          /\ scraping_status.running )
        => ( /\ response' = Response("start", 400, "error")
             /\ started' = started
             /\ pc' = pc
             /\ args' = args
             /\ scraping_status' = scraping_status ) ]_vars

\* a start request was refused while a run was active
C2_Witness ==
    /\ response = Response("start", 400, "error")
    /\ scraping_status.running
    /\ \E w \in Workers : pc[w] \notin {"idle", "done"}

\* C3: once a stop request has been accepted for a run, the worker of that
\* run begins no further page fetch, whatever requests arrive afterwards.
C3_NoFetchAfterStop ==
    [][ \A w \in Workers :
            (pc[w] = "page" /\ pc'[w] = "fetch") => ~cancelled[w] ]_vars

\* Run w is on its own: no earlier run was stopped (so every earlier worker
\* had ended when w was started), w is the latest run, and the last request
\* handled is the start request that launched it.
Alone(w) ==
    /\ started = w
    /\ response = Response("start", 200, "started")
    /\ \A v \in Workers : v < w => ~cancelled[v]

\* the steps of a worker whose scrape_all raised
C4_Steps ==
    \A w \in Workers :
        /\ (pc[w] = "except" /\ pc'[w] # "except")
              => /\ pc'[w] = "finally"
                 /\ outcome'[w] = "error"
                 /\ scraping_status'.message = "Error"
                 /\ scraping_status'.running = scraping_status.running
        /\ (pc[w] = "finally" /\ outcome[w] = "error" /\ pc'[w] # "finally")
              => /\ pc'[w] = "done"
                 /\ ~scraping_status'.running

\* the state such a worker leaves when no other request or run interferes
C4_EndState ==
    \A w \in Workers :
        (pc[w] = "done" /\ outcome[w] = "error" /\ Alone(w))
            => /\ ~scraping_status.running
               /\ scraping_status.message = "Error"

\* C4: if an exception escapes scrape_all inside the worker (the browser
\* session cannot be created), the worker catches it, stores an error
\* message, sets running to false and ends: the run ends not running with
\* the error message.
C4_ErrorEndsRun == []C4_EndState /\ [][C4_Steps]_vars

\* a run whose session could not be created has ended
C4_Witness ==
    \E w \in Workers :
        /\ pc[w] = "done"
        /\ outcome[w] = "error"
        /\ Alone(w)
        /\ scraping_status.message = "Error"

\* the workers started and not yet ended
Alive == { w \in Workers : pc[w] \notin {"idle", "done"} }

\* C5: every started run eventually reaches running = false (on completion,
\* on error, or on cancellation) with its worker ended, given that every
\* fetch returns and the worker is scheduled fairly.
C5_RunsEnd ==
    (scraping_status.running \/ Alive # {})
        ~> (~scraping_status.running /\ Alive = {})

\* one run has ended on an error and another, stopped by the user, has ended
\* too
C5_Witness ==
    /\ \A w \in Workers : pc[w] = "done"
    /\ \E w \in Workers : outcome[w] = "error"
    /\ \E w \in Workers : cancelled[w] /\ outcome[w] = "completed"
    /\ ~scraping_status.running

\* C6: within one run the sources are scraped in the order 99acres,
\* MagicBricks, Housing.com: no page of a later source is fetched before the
\* adapter of an earlier one has returned, the pages of one source are
\* fetched in increasing number from 1, and no source has more than "pages"
\* fetches.
C6_FetchOrder ==
    \A w \in Workers :
        /\ \A i \in 1..Len(fetchLog[w]) :
              /\ fetchLog[w][i][1] \in 1..Len(SiteOrder)
              /\ SiteOrder[fetchLog[w][i][1]] \in args[w].sites
              /\ fetchLog[w][i][2] \in 1..args[w].pages
              /\ IF i > 1 /\ fetchLog[w][i - 1][1] = fetchLog[w][i][1]
                 THEN fetchLog[w][i][2] > fetchLog[w][i - 1][2]
                 ELSE /\ fetchLog[w][i][2] = 1
                      /\ i > 1 => fetchLog[w][i - 1][1] < fetchLog[w][i][1]
        /\ pc[w] \in {"fetch", "box"}
              => /\ fetchLog[w] # <<>>
                 /\ fetchLog[w][Len(fetchLog[w])] = << site[w], page[w] >>

\* a worker has fetched two pages of MagicBricks and then two of Housing.com
C6_Witness ==
    \E w \in Workers :
        fetchLog[w] = << <<2, 1>>, <<2, 2>>, <<3, 1>>, <<3, 2>> >>

\* Worker w met an empty page of source s and later fetched a higher page of
\* the same source.
FetchedBeyondEmpty(w, s) ==
    /\ lastEmpty[w][1] = s
    /\ \E i \in 1..Len(fetchLog[w]) :
          /\ fetchLog[w][i][1] = s
          /\ fetchLog[w][i][2] > lastEmpty[w][2]

\* a run that met an empty page is not, for that, marked as an error
EmptyPageIsNoError ==
    \A w \in Workers :
        lastEmpty[w] # <<0, 0>> => (pc[w] # "except" /\ outcome[w] # "error")

\* C7, as claimed: for each of the three adapters, when a fetched page
\* yields no listing fragment the adapter stops paginating that source (no
\* higher page of it is fetched in this run), and the run is not marked as an
\* error.
C7_EveryAdapterStopsOnEmptyPage ==
    /\ \A w \in Workers : \A s \in 1..Len(SiteOrder) : ~FetchedBeyondEmpty(w, s)
    /\ EmptyPageIsNoError

\* C7, as the code has it: the adapters of MagicBricks and Housing.com stop
\* paginating their source at a page without listing fragments; with no
\* adapter (99acres included, which goes on to the next page) is the run
\* marked as an error for it.
C7_BreakOnEmptyPage ==
    /\ \A w \in Workers : \A s \in {2, 3} : ~FetchedBeyondEmpty(w, s)
    /\ EmptyPageIsNoError

\* page 1 of MagicBricks was empty, more pages were allowed, and the worker
\* is already fetching from Housing.com
C7_Witness ==
    \E w \in Workers :
        /\ lastEmpty[w] = <<2, 1>>
        /\ args[w].pages > 1
        /\ pc[w] = "fetch"
        /\ site[w] = 3
        /\ fetchLog[w] = << <<2, 1>>, <<3, 1>> >>

\* C8: a run with only 99acres enabled and pages = 1 whose single page
\* yields no listing fragment ends with an empty result list, running =
\* false and a message that is not an error message.
C8_EmptyRunCompletes ==
    \A w \in Workers :
        ( /\ pc[w] = "done"
          /\ args[w].sites = {"99acres"}
          /\ args[w].pages = 1
          /\ lastEmpty[w] = <<1, 1>>
          /\ Alone(w) )
            => /\ scraping_status.results = List(<<>>)
               /\ ~scraping_status.running
               /\ scraping_status.message = "Completed"
               /\ outcome[w] = "completed"

\* such a run has ended
C8_Witness ==
    \E w \in Workers :
        /\ pc[w] = "done"
        /\ args[w].sites = {"99acres"}
        /\ args[w].pages = 1
        /\ lastEmpty[w] = <<1, 1>>
        /\ Alone(w)
        /\ scraping_status.results = List(<<>>)

\* the strings extract_bhk can return for a listing whose text names a count
KnownDigits == {"0", "1", "2", "3", "4", "5", "6", "7", "8", "9"}

\* the three rejection rules, as the claim C9 words them
RejectedByBudget(self, property_data) ==
    /\ self.budget_max # 0
    /\ property_data.price_numeric # NoFloat
    /\ RatGT(property_data.price_numeric, self.budget_max)

RejectedByBhk(self, property_data) ==
    /\ property_data.bhk \in KnownDigits
    /\ property_data.bhk \notin self.bedrooms

RejectedByPreferred(self, property_data) ==
    /\ self.preferred_only
    /\ property_data.preferred_builder # StarYes

\* C9: validate_property rejects a listing exactly when (1) a budget is set,
\* the price is set and the price exceeds the budget, or (2) bhk is a known
\* digit that is not among the wanted ones, or (3) preferred_only is set and
\* the listing is not of a preferred builder; so a bhk of "Unknown" or None
\* is never rejected by the BHK rule and a price equal to the budget passes.
C9_RejectsExactly ==
    vout.called =>
        ( ~vout.result <=>
            \/ RejectedByBudget(vin.self, vin.property_data)
            \/ RejectedByBhk(vin.self, vin.property_data)
            \/ RejectedByPreferred(vin.self, vin.property_data) )

SourceNames == { SiteName[i] : i \in 1..Len(SiteName) }

\* C11: every listing of the results carries the source of the adapter that
\* produced it (99acres, MagicBricks or Housing.com); the source is never
\* missing or None in the results stored when a run completes.
C11_ResultsCarrySource ==
    scraping_status.results # NoResults =>
        \A i \in 1..Len(Items(scraping_status.results)) :
            Items(scraping_status.results)[i].Source \in SourceNames

\* ---------------------------------------------- get_results_df on its own

\* the rows add_property can have appended: a title or none, two price texts
\* or none (Price Numeric is what extract_price_numeric makes of the text),
\* either preference, and a source to tell equal listings apart
AggRows ==
    { [ Source |-> src, Property |-> title, Builder |-> None,
        Preferred_Builder |-> pref, BHK |-> None, Price |-> price[1],
        Price_Numeric |-> price[2], RERA |-> "Not Mentioned", Property_URL |-> None ] :
        src \in {"MagicBricks", "Housing.com"},
        title \in {"Flat A", None},
        pref \in {StarYes, "No"},
        price \in { <<"1 Lac", Rat(100000, 1)>>, <<"2 Lac", Rat(200000, 1)>>,
                    <<None, NoFloat>> } }

AggInputs == UNION { [1..n -> AggRows] : n \in 0..MaxRows }

AggNotCalled == [called |-> FALSE, result |-> <<>>]

AggInit ==
    /\ MachineInit
    /\ vin \in AggInputs
    /\ vout = AggNotCalled

\* the call finder.get_results_df() with all_data = vin
AggregateCall ==
    /\ ~vout.called
    /\ vout' = [called |-> TRUE, result |-> get_results_df(vin)]
    /\ UNCHANGED << scraping_status, response, requests, started, workerVars, cancelled, vin >>

AggNext == AggregateCall

AggSpec == AggInit /\ [][AggNext]_vars

\* the deduplication key of a row
Key(row) == << row.Property, row.Price >>

\* row i of rows is the first of its key
FirstOfKey(rows, i) == \A j \in 1..(i - 1) : Key(rows[j]) # Key(rows[i])

\* C12: the output of the aggregator holds no two listings with the same
\* (Property, Price) key, and for each key of the input the listing kept is
\* the first one in accumulation order.
C12_DedupKeepsFirst ==
    vout.called =>
        /\ \A i, j \in 1..Len(vout.result) :
              i # j => Key(vout.result[i]) # Key(vout.result[j])
        /\ \A i \in 1..Len(vin) :
              FirstOfKey(vin, i) => \E j \in 1..Len(vout.result) : vout.result[j] = vin[i]
        /\ \A j \in 1..Len(vout.result) :
              \E i \in 1..Len(vin) : FirstOfKey(vin, i) /\ vout.result[j] = vin[i]

\* the same listing came from two sources and the earlier one was kept
C12_Witness ==
    /\ vout.called
    /\ Len(vin) >= 2
    /\ Key(vin[1]) = Key(vin[2])
    /\ vin[1].Source # vin[2].Source
    /\ \E j \in 1..Len(vout.result) : vout.result[j] = vin[1]

\* C13: the output of the aggregator has all listings of preferred builders
\* before all others; within each tier the listings are in ascending Price
\* Numeric order, those without Price Numeric last.
C13_PreferredThenPrice ==
    vout.called =>
        \A i, j \in 1..Len(vout.result) :
            i < j =>
                LET a == vout.result[i]
                    b == vout.result[j]
                IN  /\ b.Preferred_Builder = StarYes => a.Preferred_Builder = StarYes
                    /\ (a.Preferred_Builder = StarYes <=> b.Preferred_Builder = StarYes)
                          => /\ a.Price_Numeric = NoFloat => b.Price_Numeric = NoFloat
                             /\ (a.Price_Numeric # NoFloat /\ b.Price_Numeric # NoFloat)
                                   => ~RatGT(a.Price_Numeric, b.Price_Numeric.n)

\* a cheap listing of no preferred builder was accumulated first and is put
\* after two listings of preferred builders, the cheaper of them first
C13_Witness ==
    /\ vout.called
    /\ Len(vin) = 3
    /\ Len(vout.result) = 3
    /\ vin[1].Preferred_Builder = "No" /\ vin[1].Price_Numeric = Rat(100000, 1)
    /\ vin[2].Preferred_Builder = StarYes /\ vin[2].Price_Numeric = Rat(200000, 1)
    /\ vin[3].Preferred_Builder = StarYes /\ vin[3].Price_Numeric = Rat(100000, 1)
    /\ vout.result = << vin[3], vin[2], vin[1] >>

\* this step handles an export request made when results is non-empty
ExportsResults ==
    /\ requests' = requests + 1
    /\ response'.op = "export"
    /\ scraping_status.results \notin {NoResults, List(<<>>)}

\* C14: an export request made when results is non-empty returns a CSV file
\* with the header of the canonical field names and exactly one row per
\* result.
C14_ExportReturnsCsv ==
    [][ ExportsResults =>
            /\ response'.code = 200
            /\ response'.file # NoResults
            /\ Len(Items(response'.file)) = Len(Items(scraping_status.results)) ]_vars

\* a row as read_csv and fillna("") give it back: "" for a missing value
FillNa(row) ==
    [ f \in DOMAIN row |->
        IF f = "Price_Numeric"
        THEN (IF row[f] = NoFloat THEN Rat(0, 1) ELSE row[f])
        ELSE (IF row[f] = None THEN "" ELSE row[f]) ]

\* C15: round trip: exporting the current N results to CSV and importing
\* that CSV leaves results with the same N records and the same field
\* values (modulo stringification).
C15_ExportImportRoundTrip ==
    [][ ExportsResults =>
            /\ response'.file # NoResults
            /\ \E file \in {[kind |-> "csv", rows |-> Items(response'.file)]} :
                  /\ Len(file.rows) = Len(Items(scraping_status.results))
                  /\ \A i \in 1..Len(file.rows) :
                        FillNa(file.rows[i]) = FillNa(Items(scraping_status.results)[i]) ]_vars

\* C16: an import request whose file is missing or cannot be parsed returns
\* an error response and leaves results, properties_found and message as they
\* were; results are replaced only by an import that parsed its file.
C16_FailedImportChangesNothing ==
    [][ (requests' = requests + 1 /\ response'.op = "import") =>
            \/ /\ response' = Response("import", 200, "success")
               /\ scraping_status'.results # NoResults
               /\ scraping_status'.properties_found = Len(Items(scraping_status'.results))
            \/ /\ response'.code \in {400, 500}
               /\ response'.body = "error"
               /\ scraping_status' = scraping_status ]_vars

\* an unparsable file was refused and the results imported before are still
\* there
C16_Witness ==
    /\ response = Response("import", 500, "error")
    /\ scraping_status.results = List(<<ImportedRow>>)
    /\ scraping_status.message = "Imported"

\* C17: a stop request answers "stopped" exactly when running was true, and
\* then sets running to false; when no run is active it answers
\* "not_running" and leaves every field of scraping_status unchanged.
C17_StopAnswers ==
    [][ (requests' = requests + 1 /\ response'.op = "stop") =>
            IF scraping_status.running
            THEN /\ response' = Response("stop", 200, "stopped")
                 /\ ~scraping_status'.running
            ELSE /\ response' = Response("stop", 200, "not_running")
                 /\ scraping_status' = scraping_status ]_vars

\* a stop request found no active run after one had completed
C17_Witness ==
    /\ response = Response("stop", 200, "not_running")
    /\ \E w \in Workers : pc[w] = "done" /\ outcome[w] = "completed"
    /\ scraping_status.message = "Completed"

\* this step accepts a start request
AcceptsStart ==
    /\ requests' = requests + 1
    /\ response' = Response("start", 200, "started")

\* what the worker of the run just started closes over is what the request
\* body data asks for, its budget counted in units of scale
StartedAs(data, scale) ==
    /\ args'[started'].pages = data.pages
    /\ args'[started'].sites = data.sites
    /\ args'[started'].finder.bedrooms = data.bhk
    /\ args'[started'].finder.preferred_only = data.preferred
    /\ args'[started'].finder.budget_max = data.budget * scale

\* C18, as claimed: the budget of a start request is in thousands of
\* currency units: budget_max of the run is budget * 1000.
C18_BudgetInThousands ==
    [][ AcceptsStart => \E data \in StartInputs : StartedAs(data, 1000) ]_vars

\* C18, as the code has it: the budget of a start request is in lakhs:
\* budget_max of the run is budget * 100000.
C18_BudgetInLakhs ==
    [][ AcceptsStart => \E data \in StartInputs : StartedAs(data, 100000) ]_vars

\* a run was started with the largest budget
C18_Witness ==
    \E w \in Workers :
        /\ pc[w] = "begin"
        /\ args[w].finder.budget_max = MaxBudget * 100000
        /\ args[w].finder.budget_max # MaxBudget * 1000

\* ---------------------------------------- extract_price_numeric on its own

\* what may stand before the number of a price text
PricePrefixes == { <<>>, <<RupeeSign>>, <<RupeeSign, " ">>, <<"R","s"," ">>, <<"R","s",".">> }

\* numbers as the sites write them, with their values
PriceNumbers ==
    { [text |-> <<"2">>, value |-> Rat(2, 1)],
      [text |-> <<"8","5">>, value |-> Rat(85, 1)],
      [text |-> <<"2",".","5">>, value |-> Rat(5, 2)],
      [text |-> <<"0",".","0","3">>, value |-> Rat(3, 100)],
      [text |-> <<"1",",","2","0">>, value |-> Rat(120, 1)] }

\* the suffixes with their scales, in several spellings
PriceSuffixes ==
    { [text |-> <<>>, scale |-> 1],
      [text |-> <<"C","r">>, scale |-> 10000000],
      [text |-> <<"c","r","o","r","e">>, scale |-> 10000000],
      [text |-> <<"C","R","O","R","E">>, scale |-> 10000000],
      [text |-> <<"L","a","k","h">>, scale |-> 100000],
      [text |-> <<"l","a","c">>, scale |-> 100000],
      [text |-> <<"L","A","C">>, scale |-> 100000],
      [text |-> <<"k">>, scale |-> 1000],
      [text |-> <<"K">>, scale |-> 1000] }

\* a price text of the form <number><suffix>, with the number and the scale
\* it was written from; or no text, or the empty one
PriceInputs ==
    { [ text |-> pre \o num.text \o sep \o suf.text,
        number |-> num.value, scale |-> suf.scale ] :
        pre \in PricePrefixes, num \in PriceNumbers,
        sep \in {<<>>, <<" ">>}, suf \in PriceSuffixes }
        \cup { [text |-> t, number |-> NoFloat, scale |-> 1] : t \in {NoText, <<>>} }

PriceNotCalled == [called |-> FALSE, result |-> NoFloat]

PriceInit ==
    /\ MachineInit
    /\ vin \in PriceInputs
    /\ vout = PriceNotCalled

\* the call self.extract_price_numeric(property_data["price"])
PriceCall ==
    /\ ~vout.called
    /\ vout' = [called |-> TRUE, result |-> extract_price_numeric(vin.text)]
    /\ UNCHANGED << scraping_status, response, requests, started, workerVars, cancelled, vin >>

PriceNext == PriceCall

PriceSpec == PriceInit /\ [][PriceNext]_vars

\* C19: extract_price_numeric returns, for every input of the form
\* <number><suffix>, the number times the scale of the suffix (crore/cr
\* 10,000,000; lakh/lac 100,000; k 1,000; none 1), whatever the case of the
\* letters, and None for an empty or missing input.
C19_NumberTimesScale ==
    vout.called =>
        IF vin.text \in {NoText, <<>>}
        THEN vout.result = NoFloat
        ELSE /\ vout.result # NoFloat
             /\ vout.result = RatTimes(vin.number, vin.scale)
             /\ vout.result.n * vin.number.d = vin.number.n * vin.scale * vout.result.d

\* "2.5 CRORE" after a rupee sign gave 25,000,000
C19_Witness ==
    /\ vout.called
    /\ vin.text = <<RupeeSign, " ", "2", ".", "5", " ", "C", "R", "O", "R", "E">>
    /\ vout.result = Rat(25000000, 1)

\* C20: in every execution the browser session of a run's worker has been
\* released before running becomes false for that run: on completion, on
\* error, and when the run is cancelled by a stop request.
C20_SessionReleasedFirst ==
    [][ (scraping_status.running /\ ~scraping_status'.running)
            => driver'[started] # "open" ]_vars

\* ------------------------------------------------------------- claims, C21..C30

\* scrape_99acres: price_numeric of every card, as the adapter extracts it
\* before its budget filter
acres_price_numeric ==
    [ prop \in Fragments |-> extract_price_numeric(StripText(prop.price)) ]

\* scrape_99acres: the client-side budget filter that "continue"s past a card
acres_over_budget(self, prop) ==
    /\ self.budget_max # 0
    /\ FloatTruthy(acres_price_numeric[prop])
    /\ RatGT(acres_price_numeric[prop], self.budget_max)

\* the card passes the filter of the adapter that reads it
SatisfiesCriteria(w, prop) ==
    IF site[w] = 1
    THEN ~acres_over_budget(args[w].finder, prop)
    ELSE validate_property(args[w].finder, property_data_of[site[w]][prop])

\* worker w reads the card at the head of its property_boxes in this step
ReadsCard(w) ==
    /\ pc[w] = "box"
    /\ boxes[w] # <<>>
    /\ scraping_status.running
    /\ boxes'[w] = Tail(boxes[w])

\* C21: in every adapter, a card that passes the adapter's filter and is read
\* while the run is not cancelled is appended to the accumulated listings,
\* whatever sub-fragments it lacks.
C21_CriteriaMatchesAreKept ==
    [][ \A w \in Workers :
          ReadsCard(w) /\ SatisfiesCriteria(w, Head(boxes[w]))
              => Len(all_data'[w]) = Len(all_data[w]) + 1 ]_vars

\* the fetch of worker w's page ends in this step with an exception: it ends
\* neither with cards nor with the empty page the adapter takes note of
PageRaises(w) ==
    /\ pc[w] = "fetch"
    /\ pc'[w] \notin {"fetch", "box"}
    /\ lastEmpty'[w] = lastEmpty[w]

\* C22: an exception in page p of a source leaves the run state as it is (no
\* error message, the run still running) and the adapter at page p + 1 of
\* the same source, never again at page p; from there, when p + 1 is within
\* the page budget and the run is not cancelled, the adapter's next step
\* fetches page p + 1.
C22_PageErrorSkipsPage ==
    [][ \A w \in Workers :
          /\ PageRaises(w)
                => /\ pc'[w] = "page"
                   /\ page'[w] = page[w] + 1
                   /\ site'[w] = site[w]
                   /\ fetchLog'[w] = fetchLog[w]
                   /\ outcome'[w] = outcome[w]
                   /\ scraping_status' = scraping_status
          /\ ( /\ pc[w] = "page"
               /\ pc'[w] # "page"
               /\ page[w] <= args[w].pages
               /\ scraping_status.running )
                => /\ pc'[w] = "fetch"
                   /\ fetchLog'[w] = Append(fetchLog[w], << site[w], page[w] >>)
                   /\ scraping_status'.message = "Scraping" ]_vars

\* page 1 of MagicBricks raised (it gave no card, and an empty page would
\* have ended the source) and the adapter is fetching page 2, the run still
\* running and reporting progress
C22_Witness ==
    \E w \in Workers :
        /\ pc[w] = "fetch"
        /\ fetchLog[w] = << <<2, 1>>, <<2, 2>> >>
        /\ served = 0
        /\ scraping_status.running
        /\ scraping_status.message = "Scraping"

\* the row's bhk and builder meet the criteria
MeetsBhkAndBuilder(self, row) ==
    /\ row.BHK \in KnownDigits => row.BHK \in self.bedrooms
    /\ self.preferred_only => row.Preferred_Builder = StarYes

\* the row's price, when it has one, is not above budget_max
WithinBudget(self, row) ==
    row.Price_Numeric # NoFloat => ~RatGT(row.Price_Numeric, self.budget_max)

\* the row is the row of a card that one of the adapters read and that
\* validate_property accepted
PassedValidation(self, row) ==
    \E s \in DOMAIN property_data_of : \E prop \in Fragments :
        /\ row = Row(property_data_of[s][prop])
        /\ validate_property(self, property_data_of[s][prop])

\* worker w stores the final results of its run in this step
StoresResults(w) == pc[w] = "results" /\ pc'[w] = "finally"

\* C23 as stated: every accumulated listing passed the validation gate, and
\* every listing of the results a run stores at its end has a price not above
\* budget_max, a bhk that, when a known digit, is wanted, and a preferred
\* builder when preferred_only is set.
C23_ResultsMeetCriteria ==
    /\ [](\A w \in Workers : \A i \in 1..Len(all_data[w]) :
              PassedValidation(args[w].finder, all_data[w][i]))
    /\ [][ \A w \in Workers : StoresResults(w) =>
              \A i \in 1..Len(Items(scraping_status'.results)) :
                  /\ WithinBudget(args[w].finder, Items(scraping_status'.results)[i])
                  /\ MeetsBhkAndBuilder(args[w].finder,
                                        Items(scraping_status'.results)[i]) ]_vars

\* C23, with the budget as the code reads it: the same, the price being held
\* under budget_max only when budget_max is not 0 (a budget of 0 is no
\* budget).
C23_ResultsMeetSetCriteria ==
    /\ [](\A w \in Workers : \A i \in 1..Len(all_data[w]) :
              PassedValidation(args[w].finder, all_data[w][i]))
    /\ [][ \A w \in Workers : StoresResults(w) =>
              \A i \in 1..Len(Items(scraping_status'.results)) :
                  /\ args[w].finder.budget_max # 0
                        => WithinBudget(args[w].finder, Items(scraping_status'.results)[i])
                  /\ MeetsBhkAndBuilder(args[w].finder,
                                        Items(scraping_status'.results)[i]) ]_vars

\* a run with a budget has completed and its results hold a priced listing
C23_Witness ==
    \E w \in Workers :
        /\ outcome[w] = "completed"
        /\ args[w].finder.budget_max # 0
        /\ scraping_status.message = "Completed"
        /\ scraping_status.results # NoResults
        /\ \E i \in 1..Len(Items(scraping_status.results)) :
               /\ Items(scraping_status.results)[i].Price_Numeric # NoFloat
               /\ Items(scraping_status.results)[i].Source = None

\* the values the data model gives to a listing's bhk
BhkCounts == {"1", "2", "3", "4", "Unknown"}

\* C24: the bhk of every listing an adapter has accumulated, and of every
\* listing of the results, is one of "1", "2", "3", "4" and "Unknown": never
\* None, never another text.
C24_BhkIsNormalised ==
    /\ \A w \in Workers : \A i \in 1..Len(all_data[w]) : all_data[w][i].BHK \in BhkCounts
    /\ scraping_status.results # NoResults =>
           \A i \in 1..Len(Items(scraping_status.results)) :
               Items(scraping_status.results)[i].BHK \in BhkCounts

\* the origins of the three sites
Origins == {"https://www.99acres.com", "https://www.magicbricks.com", "https://housing.com"}

\* an href resolved against an origin: an absolute one is kept, a relative
\* one follows the origin, after a slash when it brings none
Resolved(origin, href) ==
    IF StartsWith(href, Http) THEN Join(href)
    ELSE IF StartsWith(href, <<"/">>) THEN origin \o Join(href)
    ELSE origin \o "/" \o Join(href)

\* C25: the Property URL of every accumulated listing, when it has one, is
\* the href of a card resolved against the origin of one of the sites.
C25_UrlIsAbsolute ==
    \A w \in Workers : \A i \in 1..Len(all_data[w]) :
        \/ all_data[w][i].Property_URL = None
        \/ \E origin \in Origins : \E prop \in Fragments :
              /\ Truthy(prop.href)
              /\ all_data[w][i].Property_URL = Resolved(origin, prop.href)

\* C26: a step of the worker of an earlier run, taken after a later run was
\* started, changes neither running nor message nor results.
C26_StaleWorkerLeavesRunAlone ==
    [][ \A w \in Workers :
          (w < started /\ pc'[w] # pc[w])
              => /\ scraping_status'.running = scraping_status.running
                 /\ scraping_status'.message = scraping_status.message
                 /\ scraping_status'.results = scraping_status.results ]_vars

\* C27: when the worker of the latest run has finished and that run was
\* cancelled by a stop request, the run is not in the completed state: the
\* message is not the one of completion (it is still the one of the stop,
\* unless the run failed) and progress is not 100.
C27_CancelledNeverCompleted ==
    \A w \in Workers :
        (w = started /\ cancelled[w] /\ pc[w] = "done")
            => /\ scraping_status.message # "Completed"
               /\ outcome[w] # "error" =>
                      scraping_status.message = "Search stopped by user"
               /\ scraping_status.progress # 100

\* C28: the results a worker stores at the end of its run are the aggregate
\* of the listings its own adapters accumulated, whatever an import request
\* put in results during the run; no imported row is among them.
C28_FinalResultsAreTheRunsOwn ==
    [][ \A w \in Workers : StoresResults(w) =>
          /\ scraping_status'.results = List(get_results_df(all_data[w]))
          /\ \A i \in 1..Len(Items(scraping_status'.results)) :
                 /\ Items(scraping_status'.results)[i] # ImportedRow
                 /\ PassedValidation(args[w].finder, Items(scraping_status'.results)[i]) ]_vars

\* the latest run has completed with a listing of its own in the results,
\* and the last request, after the start of the run, was an import of a file
\* with rows
C28_Witness ==
    \E w \in Workers :
        /\ w = started
        /\ ~cancelled[w]
        /\ outcome[w] = "completed"
        /\ pc[w] = "done"
        /\ response.op = "import" /\ response.code = 200
        /\ scraping_status.message = "Completed"
        /\ Len(Items(scraping_status.results)) = 1
        /\ Items(scraping_status.results)[1] # ImportedRow

\* C29: when a run left to itself (no import, no stop) has completed,
\* properties_found is the number of listings in results.
C29_FoundCountsResults ==
    \A w \in Workers :
        (outcome[w] = "completed" /\ pc[w] \in {"finally", "done"})
            => scraping_status.properties_found = Len(Items(scraping_status.results))

\* the row has neither a title nor a price text
Untitled(row) == row.Property = None /\ row.Price = None

\* C30: of the accumulated listings that have neither a title nor a price
\* text, the output of the aggregator holds the first accumulated one and no
\* other, whatever their sources.
C30_MissingKeysAreEqual ==
    vout.called =>
        /\ \A i, j \in 1..Len(vout.result) :
              (Untitled(vout.result[i]) /\ Untitled(vout.result[j])) => i = j
        /\ \A i \in 1..Len(vin) :
              (Untitled(vin[i]) /\ \A k \in 1..(i - 1) : ~Untitled(vin[k]))
                 => \E j \in 1..Len(vout.result) : vout.result[j] = vin[i]

\* two listings with neither title nor price text came from different
\* sources, with a different builder preference, and only the first is in
\* the output
C30_Witness ==
    /\ vout.called
    /\ Len(vin) = 2
    /\ Untitled(vin[1]) /\ Untitled(vin[2])
    /\ vin[1].Source # vin[2].Source
    /\ vin[1].Preferred_Builder # vin[2].Preferred_Builder
    /\ vout.result = << vin[1] >>

====
